---- MODULE Spec2Model ----
(***************************************************************************)
(* State-machine model of assistant_core/llm_service.py: the persisted     *)
(* reminder table (sqlite "schedules"), the APScheduler date timers and    *)
(* the 60 s recovery poll, the reminder trigger and the per-user           *)
(* conversation session.                                                   *)
(*                                                                         *)
(* Text is a sequence of one-character strings.  Time is in seconds, read   *)
(* at a resolution of Quantum seconds up to a horizon; at the horizon the   *)
(* clock stands for "the horizon or later".                                 *)
(***************************************************************************)
EXTENDS Integers, Sequences, FiniteSets, Bags, TLC

(* ------------------------------ bounds -------------------------------- *)
\* rows the schedules table may hold
MaxRecords == 2
\* the clock advances in steps of Quantum seconds
Quantum == 60
\* the clock advances MaxTicks times
MaxTicks == 2
\* immediate jobs the poll may have queued and not yet started, per id
MaxPending == 1
\* trigger_notification invocations in flight at once
MaxThreads == 2
\* process restarts
MaxRestarts == 1
\* unknown faces the face runner reports
MaxFaces == 3
\* rows of a table handed to get_user_upcoming on its own
MaxRows == 3

Horizon == MaxTicks * Quantum

(* ----------------------------- configuration -------------------------- *)
\* scheduler.add_job(poll_pending_schedules, "interval", seconds=60, ...)
SweepInterval == 60
\* conversation_session(user_id, session_timeout=90)
SessionTimeout == 90
\* get_user_upcoming(user_id, limit=10)
UpcomingLimit == 10

(* ------------------------------- text --------------------------------- *)
K_remind_me == <<"r", "e", "m", "i", "n", "d", " ", "m", "e">>
K_schedule == <<"s", "c", "h", "e", "d", "u", "l", "e">>
K_add == <<"a", "d", "d">>
K_show_schedule == <<"s", "h", "o", "w", " ", "s", "c", "h", "e", "d", "u", "l", "e">>
K_whats_my_schedule == <<"w", "h", "a", "t", "'", "s", " ", "m", "y", " ", "s", "c", "h", "e", "d", "u", "l", "e">>
K_my_schedule == <<"m", "y", " ", "s", "c", "h", "e", "d", "u", "l", "e">>

U_RemindMom == <<"r", "e", "m", "i", "n", "d", " ", "m", "e", " ", "t", "o", " ", "c", "a", "l", "l", " ", "m", "o", "m", " ", "t", "o", "m", "o", "r", "r", "o", "w", " ", "5", "p", "m">>
U_WhatsMy == <<"w", "h", "a", "t", "'", "s", " ", "m", "y", " ", "s", "c", "h", "e", "d", "u", "l", "e">>
U_HowAreYou == <<"h", "o", "w", " ", "a", "r", "e", " ", "y", "o", "u">>
U_Pills == <<"R", "e", "m", "i", "n", "d", " ", "m", "e", " ", "t", "o", " ", "t", "a", "k", "e", " ", "p", "i", "l", "l", "s", " ">>
U_9am == <<"9", "a", "m", " ", "t", "o", "m", "o", "r", "r", "o", "w">>
U_Blank == <<" ">>

\* what the user may type at the "> " prompt of the demo STT
TypedInputs == {U_Pills, U_HowAreYou, U_9am, U_Blank, <<>>}

UpperCase == <<"A", "B", "C", "D", "E", "F", "G", "H", "I", "J", "K", "L", "M", "N", "O", "P", "Q", "R", "S", "T", "U", "V", "W", "X", "Y", "Z">>
LowerCase == <<"a", "b", "c", "d", "e", "f", "g", "h", "i", "j", "k", "l", "m", "n", "o", "p", "q", "r", "s", "t", "u", "v", "w", "x", "y", "z">>

\* str.lower(), character by character
lower(t) ==
  [i \in 1..Len(t) |->
     IF \E k \in 1..Len(UpperCase) : UpperCase[k] = t[i]
     THEN LowerCase[CHOOSE k \in 1..Len(UpperCase) : UpperCase[k] = t[i]]
     ELSE t[i]]

\* str.strip(): leading and trailing blanks removed
strip(t) ==
  IF \A i \in 1..Len(t) : t[i] = " " THEN <<>>
  ELSE LET a == CHOOSE i \in 1..Len(t) : t[i] # " " /\ \A j \in 1..(i-1) : t[j] = " "
           b == CHOOSE i \in 1..Len(t) : t[i] # " " /\ \A j \in (i+1)..Len(t) : t[j] = " "
       IN SubSeq(t, a, b)

\* Python's "p in t" on strings
Contains(t, p) ==
  \E i \in 0..(Len(t) - Len(p)) : SubSeq(t, i + 1, i + Len(p)) = p

\* transcribe_audio_from_mic_demo: input("> ").strip()
transcribe_audio_from_mic_demo(typed) == strip(typed)

\* Python's None where a text is expected
None == <<"None">>

\* a variant that tests the show_schedule keywords first
parse_intent_simple_show_first(text) ==
  LET t == lower(IF text = None \/ text = <<>> THEN <<>> ELSE text)
  IN IF Contains(t, K_show_schedule) \/ Contains(t, K_whats_my_schedule)
        \/ Contains(t, K_my_schedule)
     THEN "show_schedule"
     ELSE IF Contains(t, K_remind_me) \/ Contains(t, K_schedule) \/ Contains(t, K_add)
          THEN "add_schedule"
          ELSE "chat"

parse_intent_simple(text) ==
  LET t == lower(IF text = None \/ text = <<>> THEN <<>> ELSE text)
  IN IF Contains(t, K_remind_me) \/ Contains(t, K_schedule) \/ Contains(t, K_add)
     THEN "add_schedule"
     ELSE IF Contains(t, K_show_schedule) \/ Contains(t, K_whats_my_schedule)
             \/ Contains(t, K_my_schedule)
          THEN "show_schedule"
          ELSE "chat"

\* the instants a spoken date may denote
DateChoices == {Quantum, Horizon}

\* dateparser.parse yields None when it finds no date
NoDate == -1

\* extract_datetime_from_text: the results dateparser.parse may give for a
\* text (an external parser, relative to the current date): nothing for the
\* empty text, otherwise nothing or some instant
extract_datetime_from_text(text) ==
  IF text = <<>> THEN {NoDate} ELSE {NoDate} \cup DateChoices

(* ------------------------------ the table ----------------------------- *)
AUTHORIZED_USERS == {"alice", "bob"}

\* the users the face runner reports
SessionUsers == {"alice"}

\* INSERT INTO schedules (user_id, title, notes, when_ts): AUTOINCREMENT id,
\* notified DEFAULT 0
add_schedule(s, user_id, title, notes, when_ts) ==
  Append(s, [id |-> Len(s) + 1, user_id |-> user_id, title |-> title,
             notes |-> notes, when_ts |-> when_ts, notified |-> 0])

\* variants of mark_notified with a slip in the UPDATE: the flag counted up,
\* the flag flipped, the change never committed
mark_notified_increment(s, schedule_id) ==
  [i \in 1..Len(s) |->
     IF s[i].id = schedule_id THEN [s[i] EXCEPT !.notified = @ + 1] ELSE s[i]]

mark_notified_toggle(s, schedule_id) ==
  [i \in 1..Len(s) |->
     IF s[i].id = schedule_id THEN [s[i] EXCEPT !.notified = 1 - @] ELSE s[i]]

mark_notified_nocommit(s, schedule_id) == s

\* UPDATE schedules SET notified = 1 WHERE id = ?
mark_notified(s, schedule_id) ==
  [i \in 1..Len(s) |->
     IF s[i].id = schedule_id THEN [s[i] EXCEPT !.notified = 1] ELSE s[i]]

\* variants of the poll's query with a slip in the comparison: < for <=,
\* >= for <=, a lead of one clock step
list_due_undelivered_ahead(s, now_ts) ==
  {s[i].id : i \in {j \in 1..Len(s) : s[j].when_ts <= now_ts + Quantum
                                       /\ s[j].notified = 0}}

list_due_undelivered_strict(s, now_ts) ==
  {s[i].id : i \in {j \in 1..Len(s) : s[j].when_ts < now_ts /\ s[j].notified = 0}}

list_due_undelivered_reversed(s, now_ts) ==
  {s[i].id : i \in {j \in 1..Len(s) : s[j].when_ts >= now_ts /\ s[j].notified = 0}}

\* SELECT id FROM schedules WHERE when_ts <= ? AND notified = 0
list_due_undelivered(s, now_ts) ==
  {s[i].id : i \in {j \in 1..Len(s) : s[j].when_ts <= now_ts /\ s[j].notified = 0}}

\* SELECT user_id, title, notes, when_ts FROM schedules WHERE id = ?
\* (fetchone: the set of matching rows, empty when there is none)
select_row(s, schedule_id) ==
  {s[i] : i \in {j \in 1..Len(s) : s[j].id = schedule_id}}


\* rows sorted by (when_ts, id): ORDER BY when_ts, ties in rowid order
RECURSIVE OrderByWhen(_)
OrderByWhen(rows) ==
  IF rows = {} THEN <<>>
  ELSE LET r == CHOOSE x \in rows :
                  \A y \in rows : x.when_ts < y.when_ts
                                  \/ (x.when_ts = y.when_ts /\ x.id <= y.id)
       IN <<r>> \o OrderByWhen(rows \ {r})

\* a variant without the ORDER BY: the rows come in rowid order
get_user_upcoming_unordered(s, user_id, limit) ==
  LET mine == SelectSeq(s, LAMBDA r : r.user_id = user_id)
      n == IF Len(mine) < limit THEN Len(mine) ELSE limit
  IN [k \in 1..n |-> [title |-> mine[k].title, notes |-> mine[k].notes,
                      when_ts |-> mine[k].when_ts]]

\* SELECT title, notes, when_ts FROM schedules WHERE user_id = ?
\*   ORDER BY when_ts LIMIT ?
get_user_upcoming(s, user_id, limit) ==
  LET all == OrderByWhen({s[i] : i \in {j \in 1..Len(s) : s[j].user_id = user_id}})
      n == IF Len(all) < limit THEN Len(all) ELSE limit
  IN [k \in 1..n |-> [title |-> all[k].title, notes |-> all[k].notes,
                      when_ts |-> all[k].when_ts]]

\* conversation_session(user_id, session_timeout=90): the loop condition
\* time.time() - start_time < session_timeout
LoopGuard(t, start_time) == t - start_time < SessionTimeout

(* ------------------------------- state -------------------------------- *)
VARIABLES
  store,        \* the schedules table (assistant.db), a sequence of rows
  now,          \* the wall clock
  timers,       \* armed 'date' jobs reminder-<sid>: [id, run_date]
  jobs,         \* immediate trigger_notification jobs queued by the poll, per id
  disp,         \* trigger_notification invocations in flight (a bag)
  sess,         \* the conversation_session thread
  nextSweep,    \* next fire time of the poll_pending interval job
  boot,         \* bookkeeping: the current process run
  marked,       \* bookkeeping: the ids mark_notified was called for
  restarts,     \* bookkeeping: process restarts so far
  probe_text,   \* a text handed to parse_intent_simple on its own
  probe_intent, \* what parse_intent_simple returned for it ("" before the call)
  spoken,       \* bookkeeping: the ids whose reminder a speak(msg) call got through
  ev,           \* bookkeeping: how the last observed call ended
  face,         \* the on_unknown_face thread
  probe_q,      \* a query handed to get_user_upcoming on its own
  probe_rows    \* the rows it returned

vars == <<store, now, timers, jobs, disp, sess, nextSweep, boot, marked,
          restarts, probe_text, probe_intent, spoken, ev, face, probe_q,
          probe_rows>>

\* what the reminder and session actions of the nominal run leave alone
aux == <<spoken, ev, face, probe_q, probe_rows>>

Ids == 1..MaxRecords

NoSession ==
  [pc |-> "none", user_id |-> "", start_time |-> 0, text |-> <<>>,
   intent |-> "", follow |-> <<>>, dt |-> NoDate, follows |-> 0,
   listen_at |-> -1, listen_kind |-> "", said |-> <<>>]

Msg(kind, text, when) == [kind |-> kind, text |-> text, when |-> when]

\* the module-level code run at import: the scheduler starts empty and the
\* poll job is added with its first run one interval from now
Boot(t) ==
  /\ timers' = {}
  /\ jobs' = [i \in Ids |-> 0]
  /\ disp' = EmptyBag
  /\ sess' = NoSession
  /\ nextSweep' = t + SweepInterval

InitProgram ==
  /\ store = <<>>
  /\ now = 0
  /\ timers = {}
  /\ jobs = [i \in Ids |-> 0]
  /\ disp = EmptyBag
  /\ sess = NoSession
  /\ nextSweep = SweepInterval
  /\ boot = [at |-> 0, due |-> {}, swept |-> FALSE, first_handed |-> {}]
  /\ marked = {}
  /\ spoken = {}
  /\ restarts = 0

\* nothing observed yet, nothing handed to the functions probed on their own
NoEvent == [kind |-> "none"]

NoFace == [pc |-> "none"]

NoQuery == [user_id |-> "", limit |-> 0, asked |-> FALSE]

InitAux ==
  /\ ev = NoEvent
  /\ face = NoFace
  /\ probe_q = NoQuery
  /\ probe_rows = <<>>

Init ==
  /\ InitProgram
  /\ InitAux
  /\ probe_text = <<>>
  /\ probe_intent = ""

(* ------------------------------ the clock ----------------------------- *)
\* The interval job runs when it is due: the clock does not pass a due poll.
\* At the horizon the clock stands for "the horizon or later".
SweepDue == now >= nextSweep \/ now = Horizon

Tick ==
  /\ now < Horizon
  /\ now < nextSweep
  /\ now' = now + Quantum
  /\ UNCHANGED <<store, timers, jobs, disp, sess, nextSweep,
                 boot, marked, restarts, probe_text, probe_intent, aux>>

\* bookkeeping: the rows found in assistant.db at process start with when_ts
\* in the past and not yet notified
DueAtStart ==
  {i \in 1..Len(store) : store[i].when_ts <= now /\ store[i].notified = 0}

\* The process dies and is started again: assistant.db stays, everything in
\* memory is rebuilt by the module-level code.
Restart ==
  /\ restarts < MaxRestarts
  /\ now + SweepInterval <= Horizon
  /\ Boot(now)
  /\ boot' = [at |-> now, due |-> DueAtStart,
              swept |-> FALSE, first_handed |-> {}]
  /\ restarts' = restarts + 1
  /\ UNCHANGED <<store, now, marked, probe_text, probe_intent, aux>>

(* --------------------------- reminder trigger ------------------------- *)
\* trigger_notification up to the blocking speak(msg): the row is read and
\* speak(msg) is called; a missing row returns at once
Invoke(schedule_id) ==
  LET rows == select_row(store, schedule_id)
  IN IF rows = {} THEN disp' = disp
     ELSE LET row == CHOOSE r \in rows : TRUE
          IN disp' = disp (+) SetToBag({[id |-> schedule_id, user_id |-> row.user_id,
                                         title |-> row.title, notes |-> row.notes,
                                         when_ts |-> row.when_ts]})

\* the 'date' job reminder-<sid> runs at or after its run_date
TimerFire(t) ==
  /\ t \in timers
  /\ now >= t.run_date
  /\ BagCardinality(disp) < MaxThreads
  /\ timers' = timers \ {t}
  /\ Invoke(t.id)
  /\ UNCHANGED <<store, now, jobs, sess, nextSweep, boot,
                 marked, restarts, probe_text, probe_intent, aux>>

\* the 'date' job is dropped without running: its run time was missed (the
\* scheduler's misfire handling for a run_date already past)
TimerMiss(t) ==
  /\ t \in timers
  /\ now > t.run_date
  /\ timers' = timers \ {t}
  /\ UNCHANGED <<store, now, jobs, disp, sess, nextSweep, boot,
                 marked, restarts, probe_text, probe_intent, aux>>

\* a job queued by the poll is picked up by a worker thread
JobRun(id) ==
  /\ jobs[id] > 0
  /\ BagCardinality(disp) < MaxThreads
  /\ jobs' = [jobs EXCEPT ![id] = @ - 1]
  /\ Invoke(id)
  /\ UNCHANGED <<store, now, timers, sess, nextSweep, boot,
                 marked, restarts, probe_text, probe_intent, aux>>

\* how a blocking speak(text) call ends: tts_engine.say/runAndWait return, or
\* one of them raises
SpeakOutcomes == {"ok", "raised"}

\* how the external send of lines 160-164 ends: send_message returns, no bot
\* is configured (telegram_bot is None), send_message raises
AlertOutcomes == {"sent", "unconfigured", "raised"}

\* variants of the control flow of lines 158-165: no except clause around the
\* send; mark_notified in a finally clause
trigger_notification_flow_uncaught(spk, alr) ==
  [spoke |-> spk = "ok",
   alert_tried |-> spk = "ok",
   marks |-> spk = "ok" /\ alr # "raised",
   returns |-> spk = "ok" /\ alr # "raised"]

trigger_notification_flow_finally(spk, alr) ==
  [spoke |-> spk = "ok",
   alert_tried |-> spk = "ok",
   marks |-> TRUE,
   returns |-> spk = "ok"]

\* the control flow of lines 158-165, given how speak and the send end:
\* speak(msg) is called outside any try, so when it raises the exception leaves
\* trigger_notification at line 158; the send sits in try/except Exception,
\* so line 165 is reached however it ends
trigger_notification_flow(spk, alr) ==
  [spoke |-> spk = "ok",
   alert_tried |-> spk = "ok",
   marks |-> spk = "ok",
   returns |-> spk = "ok"]

\* lines 158-165 of an invocation in flight, for one way speak and the send end
Dispatch(d, spk, alr) ==
  LET f == trigger_notification_flow(spk, alr)
  IN /\ BagIn(d, disp)
     /\ disp' = disp (-) SetToBag({d})
     /\ store' = IF f.marks THEN mark_notified(store, d.id) ELSE store
     /\ marked' = IF f.marks THEN marked \cup {d.id} ELSE marked
     /\ spoken' = IF f.spoke THEN spoken \cup {d.id} ELSE spoken
     /\ UNCHANGED <<now, timers, jobs, sess, nextSweep, boot, restarts,
                    probe_text, probe_intent, face, probe_q, probe_rows>>

\* speak(msg) returns, the try block around the external send returns (the
\* message went out, or no bot is configured, or the exception was printed),
\* then mark_notified(schedule_id)
Complete(d) ==
  /\ \E alr \in AlertOutcomes : Dispatch(d, "ok", alr)
  /\ UNCHANGED ev

\* the same lines with speak free to raise, and how they ended written down
Outcome(d, spk, alr) ==
  LET f == trigger_notification_flow(spk, alr)
  IN /\ Dispatch(d, spk, alr)
     /\ ev' = [kind |-> "trigger", id |-> d.id, speak |-> spk,
               alert |-> IF f.alert_tried THEN alr ELSE "not_tried",
               was |-> store[d.id].notified, returned |-> f.returns]

(* ---------------------------- recovery poll --------------------------- *)
poll_pending_schedules ==
  LET due == list_due_undelivered(store, now)
  IN /\ SweepDue
     /\ \A id \in due : jobs[id] < MaxPending
     /\ jobs' = [i \in Ids |-> IF i \in due THEN jobs[i] + 1 ELSE jobs[i]]
     /\ nextSweep' = now + SweepInterval
     /\ boot' = [boot EXCEPT !.swept = TRUE,
                             !.first_handed = IF boot.swept THEN @ ELSE due]
     /\ UNCHANGED <<store, now, timers, disp, sess,
                    marked, restarts, probe_text, probe_intent, aux>>

(* ------------------------- conversation session ---------------------- *)
\* a variant that takes the follow-up answer as the title when there is one
title_of_follow(text, follow) == IF follow # <<>> THEN follow ELSE text

\* title = text  # naive: keep original text as title
title_of(text, follow) == text

\* cur.lastrowid after the INSERT
lastrowid(s) == s[Len(s)].id

\* on_authorized_user: the session thread starts and speaks the greeting
\* (one session thread at a time)
on_authorized_user(user_id) ==
  /\ sess.pc \in {"none", "ended", "crashed"}
  /\ sess' = [NoSession EXCEPT !.pc = "greeting", !.user_id = user_id,
                               !.said = <<Msg("greeting", <<>>, NoDate)>>]
  /\ UNCHANGED <<store, now, timers, jobs, disp, nextSweep, boot,
                 marked, restarts, probe_text, probe_intent, aux>>

\* the greeting has been spoken: start_time = time.time()
GreetDone ==
  /\ sess.pc = "greeting"
  /\ sess' = [sess EXCEPT !.pc = "loop", !.start_time = now]
  /\ UNCHANGED <<store, now, timers, jobs, disp, nextSweep, boot,
                 marked, restarts, probe_text, probe_intent, aux>>

\* a variant in which every turn starts the 90 s anew
LoopCheck_restarts_clock ==
  /\ sess.pc = "loop"
  /\ sess' = IF LoopGuard(now, sess.start_time)
             THEN [sess EXCEPT !.pc = "listening", !.text = <<>>, !.intent = "",
                               !.follow = <<>>, !.dt = NoDate, !.follows = 0,
                               !.listen_at = now, !.listen_kind = "main",
                               !.said = <<>>, !.start_time = now]
             ELSE [NoSession EXCEPT !.pc = "ended", !.user_id = sess.user_id]
  /\ UNCHANGED <<store, now, timers, jobs, disp, nextSweep, boot,
                 marked, restarts, probe_text, probe_intent, aux>>

\* the while condition, then the blocking transcribe call starts
LoopCheck ==
  /\ sess.pc = "loop"
  /\ sess' = IF LoopGuard(now, sess.start_time)
             THEN [sess EXCEPT !.pc = "listening", !.text = <<>>, !.intent = "",
                               !.follow = <<>>, !.dt = NoDate, !.follows = 0,
                               !.listen_at = now, !.listen_kind = "main",
                               !.said = <<>>]
             ELSE [NoSession EXCEPT !.pc = "ended", !.user_id = sess.user_id]
  /\ UNCHANGED <<store, now, timers, jobs, disp, nextSweep, boot,
                 marked, restarts, probe_text, probe_intent, aux>>

\* lines 198-205: with a datetime the row is inserted, its 'date' job added
\* and the confirmation spoken; without one the failure is spoken
Finish(s1, dt) ==
  IF dt # NoDate
  THEN LET title == title_of(s1.text, s1.follow)
           st == add_schedule(store, s1.user_id, title, <<>>, dt)
           sid == lastrowid(st)
       IN /\ Len(store) < MaxRecords
          /\ store' = st
          /\ timers' = timers \cup {[id |-> sid, run_date |-> dt]}
          /\ sess' = [s1 EXCEPT !.pc = "loop", !.dt = dt, !.follow = <<>>,
                                !.said = Append(s1.said, Msg("scheduled", title, dt))]
  ELSE /\ sess' = [s1 EXCEPT !.pc = "loop", !.dt = dt, !.follow = <<>>,
                             !.said = Append(s1.said, Msg("no_time", <<>>, NoDate))]
       /\ UNCHANGED <<store, timers>>

\* the show_schedule branch, lines 206-214
ShowSchedule(s1) ==
  LET rows == get_user_upcoming(store, s1.user_id, UpcomingLimit)
  IN /\ sess' = [s1 EXCEPT !.pc = "loop",
                   !.said = IF rows = <<>>
                            THEN <<Msg("no_upcoming", <<>>, NoDate)>>
                            ELSE <<Msg("here_are", <<>>, NoDate)>>
                                 \o [k \in 1..Len(rows) |->
                                       Msg("item", rows[k].title, rows[k].when_ts)]]
     /\ UNCHANGED <<store, timers>>

\* the transcribe call of the loop returns: lines 189-218, up to the next
\* blocking call
ListenReturn(typed) ==
  /\ sess.pc = "listening"
  /\ LET text == transcribe_audio_from_mic_demo(typed)
         intent == parse_intent_simple(text)
         s1 == [sess EXCEPT !.text = text, !.intent = intent, !.listen_at = -1,
                            !.listen_kind = ""]
     IN IF text = <<>>
        THEN /\ sess' = [NoSession EXCEPT !.pc = "ended", !.user_id = sess.user_id]
             /\ UNCHANGED <<store, timers>>
        ELSE CASE intent = "add_schedule" ->
                    \E dt \in extract_datetime_from_text(text) :
                       IF dt = NoDate
                       THEN /\ sess' = [s1 EXCEPT !.pc = "prompted",
                                                  !.said = <<Msg("ask_when", <<>>, NoDate)>>]
                            /\ UNCHANGED <<store, timers>>
                       ELSE Finish(s1, dt)
               [] intent = "show_schedule" -> ShowSchedule(s1)
               [] OTHER ->
                    /\ sess' = [s1 EXCEPT !.pc = "loop",
                                          !.said = <<Msg("reply", text, NoDate)>>]
                    /\ UNCHANGED <<store, timers>>
  /\ UNCHANGED <<now, jobs, disp, nextSweep, boot,
                 marked, restarts, probe_text, probe_intent, aux>>

\* the prompt has been spoken: the follow-up transcribe call starts (line 196)
FollowListen ==
  /\ sess.pc = "prompted"
  /\ sess' = [sess EXCEPT !.pc = "follow_listening", !.follows = @ + 1,
                          !.listen_at = now, !.listen_kind = "follow"]
  /\ UNCHANGED <<store, now, timers, jobs, disp, nextSweep, boot,
                 marked, restarts, probe_text, probe_intent, aux>>

\* a variant that takes an empty follow-up answer as the end of the session,
\* as the loop does for its own transcribe call
FollowTurn_empty_ends(typed) ==
  /\ sess.pc = "follow_listening"
  /\ LET follow == transcribe_audio_from_mic_demo(typed)
     IN IF follow = <<>>
        THEN /\ sess' = [NoSession EXCEPT !.pc = "ended", !.user_id = sess.user_id]
             /\ UNCHANGED <<store, timers>>
        ELSE \E dt \in extract_datetime_from_text(follow) :
               Finish([sess EXCEPT !.follow = follow, !.listen_at = -1,
                                   !.listen_kind = ""], dt)
  /\ UNCHANGED <<now, jobs, disp, nextSweep, boot, marked, restarts,
                 probe_text, probe_intent, spoken, face, probe_q, probe_rows>>

\* lines 197-205 for one answer to the follow-up question
FollowTurn(typed) ==
  /\ sess.pc = "follow_listening"
  /\ LET follow == transcribe_audio_from_mic_demo(typed)
     IN \E dt \in extract_datetime_from_text(follow) :
           Finish([sess EXCEPT !.follow = follow, !.listen_at = -1,
                               !.listen_kind = ""], dt)
  /\ UNCHANGED <<now, jobs, disp, nextSweep, boot, marked, restarts,
                 probe_text, probe_intent, spoken, face, probe_q, probe_rows>>

\* the follow-up transcribe call returns: lines 197-205
FollowReturn(typed) ==
  /\ FollowTurn(typed)
  /\ UNCHANGED ev

\* the same, with the answer and what the turn did with it written down
FollowReturnSeen(typed) ==
  /\ FollowTurn(typed)
  /\ ev' = [kind |-> "follow", text |-> transcribe_audio_from_mic_demo(typed),
            pc_after |-> sess'.pc, dt |-> sess'.dt,
            rows |-> Len(store') - Len(store),
            jobs_added |-> Cardinality(timers' \ timers),
            last_said |-> IF sess'.said = <<>> THEN ""
                          ELSE sess'.said[Len(sess'.said)].kind]

(* --------------------------- specifications --------------------------- *)
Next ==
  \/ Tick
  \/ Restart
  \/ \E t \in timers : TimerFire(t)
  \/ \E t \in timers : TimerMiss(t)
  \/ \E id \in Ids : JobRun(id)
  \/ \E d \in BagToSet(disp) : Complete(d)
  \/ poll_pending_schedules
  \/ \E u \in SessionUsers : on_authorized_user(u)
  \/ GreetDone
  \/ LoopCheck
  \/ \E typed \in TypedInputs : ListenReturn(typed)
  \/ FollowListen
  \/ \E typed \in TypedInputs : FollowReturn(typed)

Spec == Init /\ [][Next]_vars

\* parse_intent_simple on its own: a text is drawn and classified
T_ADD == <<"A", "D", "D">>
T_Show == <<"S", "h", "o", "w", " ">>
T_x == <<"x">>

Tokens ==
  {U_RemindMom, U_WhatsMy, U_HowAreYou, U_9am, K_remind_me, K_schedule, K_add,
   K_show_schedule, K_my_schedule, T_ADD, T_Show, T_x, U_Blank}

ProbeTexts ==
  {<<>>, None} \cup Tokens \cup {a \o b : a \in Tokens, b \in Tokens}

InitIntent ==
  /\ InitProgram
  /\ InitAux
  /\ probe_text \in ProbeTexts
  /\ probe_intent = ""

Classify ==
  /\ probe_intent = ""
  /\ probe_intent' = parse_intent_simple(probe_text)
  /\ UNCHANGED <<store, now, timers, jobs, disp, sess, nextSweep, boot,
                 marked, restarts, probe_text, aux>>

NextIntent == Classify

SpecIntent == InitIntent /\ [][NextIntent]_vars

(* ------------------- the trigger with speak and send failing --------- *)
\* the table after sessions of alice inserted rows with the instants w, in
\* that order
RECURSIVE TableOf(_)
TableOf(w) ==
  IF w = <<>> THEN <<>>
  ELSE add_schedule(TableOf(SubSeq(w, 1, Len(w) - 1)), "alice", strip(U_Pills),
                    <<>>, w[Len(w)])

\* the date job conversation_session adds for a row (line 202)
TimerOf(row) == [id |-> row.id, run_date |-> row.when_ts]

\* The process is up with rows in assistant.db that nobody has been reminded
\* of; each row's date job is armed, or was lost when the process restarted.
InitDispatch ==
  /\ \E n \in 0..MaxRecords : \E w \in [1..n -> DateChoices] : store = TableOf(w)
  /\ timers \in SUBSET {TimerOf(store[i]) : i \in 1..Len(store)}
  /\ now = 0
  /\ jobs = [i \in Ids |-> 0]
  /\ disp = EmptyBag
  /\ sess = NoSession
  /\ nextSweep = SweepInterval
  /\ boot = [at |-> 0, due |-> {}, swept |-> FALSE, first_handed |-> {}]
  /\ marked = {}
  /\ spoken = {}
  /\ restarts = 0
  /\ InitAux
  /\ probe_text = <<>>
  /\ probe_intent = ""

NextDispatch ==
  \/ Tick
  \/ \E t \in timers : TimerFire(t)
  \/ \E t \in timers : TimerMiss(t)
  \/ \E id \in Ids : JobRun(id)
  \/ \E d \in BagToSet(disp) : \E spk \in SpeakOutcomes : \E alr \in AlertOutcomes :
        Outcome(d, spk, alr)
  \/ poll_pending_schedules

SpecDispatch == InitDispatch /\ [][NextDispatch]_vars

(* ----------------------- sqlite raising in a call -------------------- *)
\* A store function raises sqlite3.Error inside conversation_session (lines
\* 200 and 207 sit in no try block): the exception leaves the function and
\* the session thread ends where it is, with nothing spoken after it.
StoreRaises(s1, op) ==
  /\ sess' = [s1 EXCEPT !.pc = "crashed"]
  /\ ev' = [kind |-> "storage", op |-> op, at |-> now,
            pc_after |-> "crashed", said_after |-> <<>>]
  /\ UNCHANGED <<store, timers>>

\* the transcribe call of the loop returns a text whose turn calls a store
\* function, and the call raises: add_schedule once a datetime is there,
\* get_user_upcoming in a show_schedule turn
ListenReturnRaises(typed) ==
  /\ sess.pc = "listening"
  /\ LET text == transcribe_audio_from_mic_demo(typed)
         intent == parse_intent_simple(text)
         s1 == [sess EXCEPT !.text = text, !.intent = intent, !.listen_at = -1,
                            !.listen_kind = ""]
     IN /\ text # <<>>
        /\ \/ /\ intent = "add_schedule"
              /\ \E dt \in extract_datetime_from_text(text) :
                    dt # NoDate /\ StoreRaises([s1 EXCEPT !.dt = dt], "add_schedule")
           \/ /\ intent = "show_schedule"
              /\ StoreRaises(s1, "get_user_upcoming")
  /\ UNCHANGED <<now, jobs, disp, nextSweep, boot, marked, restarts,
                 probe_text, probe_intent, spoken, face, probe_q, probe_rows>>

\* the follow-up answer gives a datetime and add_schedule raises
FollowReturnRaises(typed) ==
  /\ sess.pc = "follow_listening"
  /\ LET follow == transcribe_audio_from_mic_demo(typed)
     IN \E dt \in extract_datetime_from_text(follow) :
           /\ dt # NoDate
           /\ StoreRaises([sess EXCEPT !.follow = follow, !.dt = dt,
                                       !.listen_at = -1, !.listen_kind = ""],
                          "add_schedule")
  /\ UNCHANGED <<now, jobs, disp, nextSweep, boot, marked, restarts,
                 probe_text, probe_intent, spoken, face, probe_q, probe_rows>>

\* the SELECT of poll_pending_schedules raises: the job function ends with
\* the exception and no id is handed over; the scheduler logs it and the
\* interval job stays, its next run one interval on
poll_pending_schedules_raises ==
  /\ SweepDue
  /\ nextSweep' = now + SweepInterval
  /\ ev' = [kind |-> "storage", op |-> "poll", at |-> now,
            next_run |-> now + SweepInterval, handed |-> {}]
  /\ UNCHANGED <<store, now, timers, jobs, disp, sess, boot, marked, restarts,
                 probe_text, probe_intent, spoken, face, probe_q, probe_rows>>

\* the sessions and the poll with store calls free to raise (the jobs the
\* poll queues are left waiting)
NextStorage ==
  \/ Tick
  \/ poll_pending_schedules
  \/ poll_pending_schedules_raises
  \/ \E u \in SessionUsers : on_authorized_user(u)
  \/ GreetDone
  \/ LoopCheck
  \/ \E typed \in TypedInputs : ListenReturn(typed)
  \/ \E typed \in TypedInputs : ListenReturnRaises(typed)
  \/ FollowListen
  \/ \E typed \in TypedInputs : FollowReturn(typed)
  \/ \E typed \in TypedInputs : FollowReturnRaises(typed)

SpecStorage == Init /\ [][NextStorage]_vars

(* ------------------- the follow-up answer, looked at ------------------ *)
\* the sessions alone, with the clock and the poll (the jobs the poll queues
\* are left waiting)
NextFollow ==
  \/ Tick
  \/ poll_pending_schedules
  \/ \E u \in SessionUsers : on_authorized_user(u)
  \/ GreetDone
  \/ LoopCheck
  \/ \E typed \in TypedInputs : ListenReturn(typed)
  \/ FollowListen
  \/ \E typed \in TypedInputs : FollowReturnSeen(typed)

SpecFollow == Init /\ [][NextFollow]_vars

(* --------------------------- unknown faces --------------------------- *)
\* everything but the on_unknown_face thread
notFace == <<store, now, timers, jobs, disp, sess, nextSweep, boot, marked,
             restarts, probe_text, probe_intent, spoken, ev, probe_q, probe_rows>>

\* send_photo_to_owner: False without a bot, else seek and send_photo, which
\* return (True) or raise
send_photo_to_owner(bot, outcome) ==
  IF ~bot THEN "False"
  ELSE IF outcome = "raised" THEN "raised" ELSE "True"

\* a variant that speaks of success whatever send_photo_to_owner returned
outcome_message_always(sent) == "owner_notified"

\* lines 138-141: the message for what send_photo_to_owner returned
outcome_message(sent) ==
  IF sent = "True" THEN "owner_notified" ELSE "couldnt_notify"

\* on_unknown_face_and_notify: the thread starts on_unknown_face
on_unknown_face_and_notify ==
  /\ face.pc \in {"idle", "done"}
  /\ face.runs < MaxFaces
  /\ face' = [face EXCEPT !.pc = "saving", !.runs = @ + 1, !.saved = FALSE,
                          !.sent = "", !.alert_raised = FALSE,
                          !.speak_raised = FALSE, !.propagated = FALSE,
                          !.from = Len(face.said)]
  /\ UNCHANGED notFace

\* lines 131-135: the photo is written to captured/unknown_<ts>.jpg; an
\* OSError there is outside the try block and leaves the function
SavePhoto(outcome) ==
  /\ face.pc = "saving"
  /\ face' = IF outcome = "ok"
             THEN [face EXCEPT !.pc = "alerting", !.saved = TRUE]
             ELSE [face EXCEPT !.pc = "done", !.propagated = TRUE]
  /\ UNCHANGED notFace

\* line 137, inside the try block
AlertOwner(outcome) ==
  /\ face.pc = "alerting"
  /\ LET sent == send_photo_to_owner(face.bot, outcome)
     IN face' = IF sent = "raised"
                THEN [face EXCEPT !.pc = "except", !.sent = sent,
                                  !.alert_raised = TRUE]
                ELSE [face EXCEPT !.pc = "outcome", !.sent = sent]
  /\ UNCHANGED notFace

\* lines 138-141: the outcome is spoken, still inside the try block, so a
\* speak that raises lands in the except clause as well
SpeakOutcome(spk) ==
  /\ face.pc = "outcome"
  /\ face' = IF spk = "ok"
             THEN [face EXCEPT !.pc = "done",
                               !.said = Append(@, outcome_message(face.sent))]
             ELSE [face EXCEPT !.pc = "except", !.speak_raised = TRUE]
  /\ UNCHANGED notFace

\* lines 142-144: the except clause prints the error and speaks the failure;
\* a speak that raises here leaves the function
SpeakFailure(spk) ==
  /\ face.pc = "except"
  /\ face' = IF spk = "ok"
             THEN [face EXCEPT !.pc = "done", !.said = Append(@, "send_failed")]
             ELSE [face EXCEPT !.pc = "done", !.speak_raised = TRUE,
                               !.propagated = TRUE]
  /\ UNCHANGED notFace

\* telegram_bot is a Bot when TELEGRAM_BOT_TOKEN is set, else None
InitUnknown ==
  /\ InitProgram
  /\ ev = NoEvent
  /\ probe_q = NoQuery
  /\ probe_rows = <<>>
  /\ probe_text = <<>>
  /\ probe_intent = ""
  /\ \E b \in BOOLEAN :
        face = [pc |-> "idle", bot |-> b, runs |-> 0, saved |-> FALSE,
                sent |-> "", alert_raised |-> FALSE, speak_raised |-> FALSE,
                propagated |-> FALSE, from |-> 0, said |-> <<>>]

NextUnknown ==
  \/ on_unknown_face_and_notify
  \/ \E o \in {"ok", "raised"} : SavePhoto(o)
  \/ \E o \in {"ok", "raised"} : AlertOwner(o)
  \/ \E spk \in SpeakOutcomes : SpeakOutcome(spk)
  \/ \E spk \in SpeakOutcomes : SpeakFailure(spk)

SpecUnknown == InitUnknown /\ [][NextUnknown]_vars

(* ------------------ get_user_upcoming and show_schedule -------------- *)
\* what add_schedule may have been called with: a user, the utterance kept
\* as title, an instant
RowInputs ==
  {[user_id |-> u, title |-> t, when_ts |-> w] :
     u \in AUTHORIZED_USERS, t \in {strip(U_Pills), K_add}, w \in DateChoices}

\* the table after add_schedule calls with the inputs ins, in that order
RECURSIVE Inserted(_)
Inserted(ins) ==
  IF ins = <<>> THEN <<>>
  ELSE LET r == ins[Len(ins)]
       IN add_schedule(Inserted(SubSeq(ins, 1, Len(ins) - 1)),
                       r.user_id, r.title, <<>>, r.when_ts)

\* A table of up to MaxRows rows of both users, a query for one of them, and
\* a session of that user whose transcribe call is about to return.
InitUpcoming ==
  /\ \E n \in 0..MaxRows : \E ins \in [1..n -> RowInputs] : store = Inserted(ins)
  /\ \E u \in AUTHORIZED_USERS : \E l \in 0..MaxRows :
        /\ probe_q = [user_id |-> u, limit |-> l, asked |-> FALSE]
        /\ sess = [NoSession EXCEPT !.pc = "listening", !.user_id = u,
                                    !.listen_at = 0, !.listen_kind = "main"]
  /\ probe_rows = <<>>
  /\ now = 0
  /\ timers = {}
  /\ jobs = [i \in Ids |-> 0]
  /\ disp = EmptyBag
  /\ nextSweep = SweepInterval
  /\ boot = [at |-> 0, due |-> {}, swept |-> FALSE, first_handed |-> {}]
  /\ marked = {}
  /\ spoken = {}
  /\ restarts = 0
  /\ ev = NoEvent
  /\ face = NoFace
  /\ probe_text = <<>>
  /\ probe_intent = ""

\* get_user_upcoming(user_id, limit) is called
Upcoming ==
  /\ ~probe_q.asked
  /\ probe_rows' = get_user_upcoming(store, probe_q.user_id, probe_q.limit)
  /\ probe_q' = [probe_q EXCEPT !.asked = TRUE]
  /\ UNCHANGED <<store, now, timers, jobs, disp, sess, nextSweep, boot, marked,
                 restarts, probe_text, probe_intent, spoken, ev, face>>

\* a turn takes the show_schedule branch (lines 206-214)
ShowTurn ==
  /\ sess.pc = "listening"
  /\ ShowSchedule([sess EXCEPT !.text = U_WhatsMy, !.intent = "show_schedule",
                               !.listen_at = -1, !.listen_kind = ""])
  /\ UNCHANGED <<now, jobs, disp, nextSweep, boot, marked, restarts,
                 probe_text, probe_intent, spoken, ev, face, probe_q, probe_rows>>

NextUpcoming == Upcoming \/ ShowTurn

SpecUpcoming == InitUpcoming /\ [][NextUpcoming]_vars

\* The scheduler thread keeps running the interval job and handing queued
\* jobs to its worker threads, the clock advances, and the blocking calls of
\* a reminder return.  Nothing obliges a user to speak or a timer to be on
\* time, and the process is restarted only finitely often.
FairSpec ==
  /\ Spec
  /\ WF_vars(Tick)
  /\ WF_vars(poll_pending_schedules)
  /\ \A id \in Ids : WF_vars(JobRun(id))
  /\ WF_vars(\E d \in BagToSet(disp) : Complete(d))

\* One run of the process, never restarted, in which moreover the session
\* thread is scheduled and every transcribe call returns (the user types
\* something, or just Enter).
NextSession ==
  \/ Tick
  \/ \E t \in timers : TimerFire(t)
  \/ \E t \in timers : TimerMiss(t)
  \/ \E id \in Ids : JobRun(id)
  \/ \E d \in BagToSet(disp) : Complete(d)
  \/ poll_pending_schedules
  \/ \E u \in SessionUsers : on_authorized_user(u)
  \/ GreetDone
  \/ LoopCheck
  \/ \E typed \in TypedInputs : ListenReturn(typed)
  \/ FollowListen
  \/ \E typed \in TypedInputs : FollowReturn(typed)

FairSessionSpec ==
  /\ Init /\ [][NextSession]_vars
  /\ WF_vars(Tick)
  /\ WF_vars(poll_pending_schedules)
  /\ \A id \in Ids : WF_vars(JobRun(id))
  /\ WF_vars(\E d \in BagToSet(disp) : Complete(d))
  /\ WF_vars(GreetDone)
  /\ WF_vars(LoopCheck)
  /\ WF_vars(\E typed \in TypedInputs : ListenReturn(typed))
  /\ WF_vars(FollowListen)
  /\ WF_vars(\E typed \in TypedInputs : FollowReturn(typed))

(* ------------------------------- claims ------------------------------- *)
\* C6: parse_intent_simple returns add_schedule for "remind me to call mom
\* tomorrow 5pm", show_schedule for "what's my schedule" and chat for "how
\* are you".
C6_Intents ==
  probe_intent # "" =>
    /\ probe_text = U_RemindMom => probe_intent = "add_schedule"
    /\ probe_text = U_WhatsMy => probe_intent = "show_schedule"
    /\ probe_text = U_HowAreYou => probe_intent = "chat"

\* trigger_notification invocations in flight for one id
InFlight(id) ==
  LET S == {d \in BagToSet(disp) : d.id = id}
  IN IF S = {} THEN 0 ELSE CopiesIn(CHOOSE d \in S : TRUE, disp)

\* C1: however the id's date timer and the poll interleave, no two
\* trigger_notification invocations for one id are past the delivered check
\* at the same time, and no invocation gets through speaking and sending for
\* an id that an earlier one has already spoken, sent and marked.
C1_AtMostOnce ==
  [][\A id \in Ids :
       /\ InFlight(id) <= 1
       /\ (restarts' = restarts /\ InFlight(id)' < InFlight(id)) => id \notin marked]_vars

\* C2: a trigger_notification invocation for an id whose row already has
\* notified = 1 is a no-op: it does not start to speak (no new invocation is
\* left in flight) and the table stays as it is.
C2_DeliveredNoOp ==
  [][\A id \in 1..Len(store) :
       (/\ store[id].notified = 1
        /\ \/ jobs'[id] < jobs[id]
           \/ \E t \in timers \ timers' : t.id = id)
         => (InFlight(id)' <= InFlight(id) /\ store' = store)]_vars

\* C3: every row add_schedule inserted is eventually marked notified, by a
\* completed trigger_notification, whatever happened to its timer and
\* whether or not the process was restarted in between.
C3_EventuallyDelivered ==
  \A i \in Ids :
    (Len(store) >= i)
      ~> (Len(store) >= i /\ store[i].notified = 1 /\ i \in marked)

\* a row that the restart found due and not notified, its timer lost, has
\* been delivered
C3_Witness ==
  \E i \in boot.due : restarts >= 1 /\ store[i].notified = 1 /\ i \in marked

\* C4: the first poll after process start returns every row that was in the
\* table at start with when_ts in the past and notified = 0 and queues a
\* trigger_notification job for it, and that poll runs one interval after the
\* start (at the first clock reading that is not before it).
C4_FirstSweep ==
  /\ boot.swept => boot.due \subseteq boot.first_handed
  /\ ~boot.swept => now < boot.at + SweepInterval + Quantum

C4_Witness ==
  restarts >= 1 /\ boot.swept /\ boot.due # {} /\ boot.due \subseteq boot.first_handed

\* C5: no transcribe call of a session, in the loop or as the follow-up,
\* starts at or after start_time + session_timeout.
C5_NoLateListen ==
  sess.pc \in {"listening", "follow_listening"}
    => sess.listen_at < sess.start_time + SessionTimeout

\* C7: mark_notified is idempotent on every table the program reaches and for
\* every id, in the table or not: a second call changes nothing.
C7_MarkIdempotent ==
  \A id \in 0..(MaxRecords + 1) :
    mark_notified(mark_notified(store, id), id) = mark_notified(store, id)

\* mark_notified has run for a row and a second invocation for the same id,
\* which will call it again, is in flight
C7_Witness ==
  \E id \in 1..Len(store) :
    id \in marked /\ store[id].notified = 1 /\ InFlight(id) >= 1

\* the clock readings, the instant w and the seconds next to it
QueryTimes(w) ==
  {k * Quantum : k \in 0..(MaxTicks + 1)} \cup {w - 1, w, w + 1}

\* C8: a row that mark_notified has not been called for is returned by the
\* due query at every now_ts >= its when_ts; a row that mark_notified has been
\* called for, once or more, is returned at no now_ts.
C8_DueQuery ==
  \A i \in 1..Len(store) : \A t \in QueryTimes(store[i].when_ts) :
    /\ (i \notin marked /\ t >= store[i].when_ts)
          => store[i].id \in list_due_undelivered(store, t)
    /\ i \in marked => store[i].id \notin list_due_undelivered(store, t)

C8_Witness ==
  /\ Len(store) = 2
  /\ \E i, j \in 1..Len(store) :
        /\ i \in marked /\ store[i].when_ts <= now
        /\ j \notin marked /\ store[j].when_ts = now
        /\ list_due_undelivered(store, now) = {store[j].id}

\* C9: in an add_schedule turn the follow-up transcribe is called at most
\* once and only when the original utterance gave no datetime; the turn
\* inserts a row exactly when a datetime was obtained, with the original
\* utterance as title, empty notes, the parsed when_ts and notified = 0, and
\* adds the date timer of the new id; otherwise table and timers stay.
C9_AddTurn ==
  [][/\ (sess'.pc = "follow_listening" /\ sess.pc # "follow_listening")
          => /\ sess.pc = "prompted" /\ sess.intent = "add_schedule"
             /\ sess.follows = 0 /\ sess.dt = NoDate
             /\ store' = store /\ timers' = timers
     /\ (sess'.pc = "prompted" /\ sess.pc # "prompted")
          => store' = store /\ timers' = timers
     /\ (sess.pc \in {"listening", "follow_listening"} /\ sess'.pc = "loop"
         /\ sess'.intent = "add_schedule")
          => /\ sess'.follows <= 1
             /\ sess.pc = "follow_listening" => sess'.text = sess.text
             /\ IF sess'.dt # NoDate
                THEN /\ store' = Append(store,
                            [id |-> Len(store) + 1, user_id |-> sess.user_id,
                             title |-> sess'.text, notes |-> <<>>,
                             when_ts |-> sess'.dt, notified |-> 0])
                     /\ timers' = timers \cup {[id |-> Len(store) + 1,
                                                run_date |-> sess'.dt]}
                ELSE store' = store /\ timers' = timers
    ]_vars

\* a turn that asked for the time and scheduled from the answer
C9_Witness ==
  /\ sess.pc = "loop" /\ sess.intent = "add_schedule"
  /\ sess.follows = 1 /\ sess.dt # NoDate
  /\ Len(store) >= 1
  /\ store[Len(store)].title = sess.text
  /\ store[Len(store)].when_ts = sess.dt

\* C10: no step removes a row, changes a row's id, user_id, title, notes or
\* when_ts, or takes notified from 1 back to 0.
C10_RowsStable ==
  [][/\ Len(store') >= Len(store)
     /\ \A i \in 1..Len(store) :
          /\ store'[i].id = store[i].id
          /\ store'[i].user_id = store[i].user_id
          /\ store'[i].title = store[i].title
          /\ store'[i].notes = store[i].notes
          /\ store'[i].when_ts = store[i].when_ts
          /\ store'[i].notified >= store[i].notified
          /\ store'[i].notified \in {0, 1}
    ]_vars

\* a full table, all of it delivered, after a restart
C10_Witness ==
  /\ restarts >= 1
  /\ Len(store) = MaxRecords
  /\ \A i \in 1..Len(store) : store[i].notified = 1 /\ i \in marked

\* C11: when the external send of a trigger_notification invocation raises or
\* no bot is configured, for a row that was not yet notified and whose
\* reminder was spoken, the invocation still calls mark_notified for that id
\* and returns normally: the row has notified = 1.
C11_AlertFailureMarks ==
  (ev.kind = "trigger" /\ ev.speak = "ok" /\ ev.was = 0
   /\ ev.alert \in {"raised", "unconfigured"})
    => (ev.returned /\ store[ev.id].notified = 1 /\ ev.id \in marked)

\* the send raised for a row not yet notified, and the row is notified
C11_Witness ==
  /\ ev.kind = "trigger" /\ ev.speak = "ok" /\ ev.was = 0
  /\ ev.alert = "raised"
  /\ store[ev.id].notified = 1

\* C12: when speak raises inside trigger_notification the invocation still
\* goes on to the external send and to mark_notified.
C12_SpeakNotFatal ==
  (ev.kind = "trigger" /\ ev.speak = "raised")
    => (ev.alert # "not_tried" /\ store[ev.id].notified = 1)

\* C13: a store call raising in a session's add_schedule or show_schedule
\* turn leaves the session in its loop with a failure message spoken, and a
\* poll whose query raises leaves the interval job running, its next run one
\* interval later.
C13_StorageFailureContained ==
  ev.kind = "storage" =>
    IF ev.op = "poll"
    THEN ev.next_run = ev.at + SweepInterval
    ELSE ev.pc_after = "loop" /\ ev.said_after # <<>>

\* the messages the current on_unknown_face invocation has spoken
FaceSaid == SubSeq(face.said, face.from + 1, Len(face.said))

\* C14: in on_unknown_face an exception of send_photo_to_owner never leaves
\* the function: it ends in the spoken failure message; and an invocation
\* that saved the photo and whose speak calls returned has spoken exactly one
\* message, the success message only when send_photo_to_owner returned True.
C14_UnknownFace ==
  face.pc = "done" =>
    /\ (face.alert_raised /\ ~face.speak_raised)
          => (~face.propagated /\ FaceSaid = <<"send_failed">>)
    /\ (face.saved /\ ~face.speak_raised)
          => /\ ~face.propagated
             /\ Len(FaceSaid) = 1
             /\ FaceSaid[1] = "owner_notified" => face.sent = "True"
    /\ face.propagated => (~face.saved \/ face.speak_raised)

\* three invocations with a bot: one alerted the owner, one whose send raised,
\* the last again a raised send turned into the failure message
C14_Witness ==
  /\ face.pc = "done" /\ face.bot /\ face.runs = MaxFaces
  /\ face.alert_raised /\ ~face.propagated
  /\ face.said = <<"owner_notified", "send_failed", "send_failed">>

\* P lists, as <<title, notes, when_ts>>, rows of user in ascending when_ts
\* order, as many as the user has up to limit, each row at most once, and no
\* row of the user left out has a smaller when_ts than one listed
SmallestOf(P, user, limit) ==
  LET U == {j \in 1..Len(store) : store[j].user_id = user}
  IN /\ Len(P) = IF Cardinality(U) < limit THEN Cardinality(U) ELSE limit
     /\ \A k \in 1..(Len(P) - 1) : P[k][3] <= P[k + 1][3]
     /\ \E f \in [1..Len(P) -> U] :
          /\ \A a, b \in 1..Len(P) : f[a] = f[b] => a = b
          /\ \A k \in 1..Len(P) :
                P[k] = <<store[f[k]].title, store[f[k]].notes, store[f[k]].when_ts>>
          /\ \A j \in U \ {f[k] : k \in 1..Len(P)} :
                \A k \in 1..Len(P) : store[j].when_ts >= P[k][3]

\* C15: get_user_upcoming(user_id, limit) returns rows of user_id only, in
\* ascending when_ts order, at most limit of them, the ones with the smallest
\* when_ts; the show_schedule branch speaks the rows in that order after the
\* heading, and speaks the "no upcoming schedules" message exactly when the
\* user has no row.
C15_Upcoming ==
  /\ probe_q.asked =>
       SmallestOf([k \in 1..Len(probe_rows) |->
                     <<probe_rows[k].title, probe_rows[k].notes, probe_rows[k].when_ts>>],
                  probe_q.user_id, probe_q.limit)
  /\ (sess.pc = "loop" /\ sess.intent = "show_schedule") =>
       LET mine == {j \in 1..Len(store) : store[j].user_id = sess.user_id}
           items == SubSeq(sess.said, 2, Len(sess.said))
       IN /\ sess.said # <<>>
          /\ (sess.said[1].kind = "no_upcoming") <=> (mine = {})
          /\ mine = {} => Len(sess.said) = 1
          /\ mine # {} =>
                /\ sess.said[1].kind = "here_are"
                /\ \A k \in 1..Len(items) : items[k].kind = "item"
                /\ SmallestOf([k \in 1..Len(items) |->
                                 <<items[k].text, <<>>, items[k].when>>],
                              sess.user_id, UpcomingLimit)

\* alice's later row was inserted first and bob has a row in between: a query
\* with limit 1 returns alice's earlier row only, and her show_schedule turn
\* speaks both rows, the earlier first
C15_Witness ==
  /\ Len(store) = 3
  /\ store[1].user_id = "alice" /\ store[1].when_ts = Horizon
  /\ store[2].user_id = "bob" /\ store[2].when_ts = Quantum
  /\ store[3].user_id = "alice" /\ store[3].when_ts = Quantum
  /\ probe_q.asked /\ probe_q.user_id = "alice" /\ probe_q.limit = 1
  /\ Len(probe_rows) = 1 /\ probe_rows[1].when_ts = Quantum
  /\ sess.pc = "loop" /\ sess.user_id = "alice" /\ Len(sess.said) = 3
  /\ sess.said[2].when = Quantum /\ sess.said[3].when = Horizon

\* the rule table of the claim, in order
RuleTable ==
  <<[keys |-> {K_remind_me, K_schedule, K_add}, intent |-> "add_schedule"],
    [keys |-> {K_show_schedule, K_whats_my_schedule, K_my_schedule},
     intent |-> "show_schedule"]>>

\* the same letter, in either case
SameLetter(a, b) ==
  a = b \/ \E k \in 1..Len(UpperCase) : {a, b} = {UpperCase[k], LowerCase[k]}

\* key occurs in t, letter case ignored
OccursIn(key, t) ==
  \E i \in 0..(Len(t) - Len(key)) :
    \A j \in 1..Len(key) : SameLetter(t[i + j], key[j])

\* the intent of the first rule with a key in the text, chat when there is
\* none or the text is missing
RuleTableIntent(text) ==
  LET t == IF text = None THEN <<>> ELSE text
      hits == {r \in 1..Len(RuleTable) : \E key \in RuleTable[r].keys : OccursIn(key, t)}
  IN IF hits = {} THEN "chat"
     ELSE RuleTable[CHOOSE r \in hits : \A q \in hits : r <= q].intent

\* C16: parse_intent_simple returns, for every text, the intent of the first
\* rule of the table ("remind me", "schedule", "add" -> add_schedule; "show
\* schedule", "what's my schedule", "my schedule" -> show_schedule) one of
\* whose keys occurs in the text with letter case ignored, and chat when no
\* key occurs, the text is empty or it is None.
C16_RuleTable ==
  probe_intent # "" => probe_intent = RuleTableIntent(probe_text)

\* "Show schedule": capitals are ignored and the first rule wins
C16_Witness ==
  /\ probe_text = T_Show \o K_schedule
  /\ probe_intent = "add_schedule"
  /\ OccursIn(K_show_schedule, probe_text)

\* the session thread is inside the while loop of conversation_session
InLoop(s) == s.pc \in {"loop", "listening", "prompted", "follow_listening"}

\* C17: a session whose deadline start_time + session_timeout lies within
\* the clock's range reaches its end, whatever the user says, as long as the
\* transcribe calls return and time advances; start_time never changes while
\* the session is in its loop; the loop's transcribe call ends the session at
\* once exactly when it returns the empty text; and a session that has ended
\* takes no further step: it adds no row and no job, and the only change is
\* that a new session thread is started.
C17_SessionEnds ==
  /\ (InLoop(sess) /\ sess.start_time + SessionTimeout <= Horizon)
        ~> (sess.pc = "ended")
  /\ [][/\ (InLoop(sess) /\ InLoop(sess'))
             => sess'.start_time = sess.start_time
        /\ (sess.pc = "listening" /\ sess' # sess)
             => (sess'.pc = "ended" <=> sess'.text = <<>>)
        /\ (sess.pc = "ended")
             => /\ sess' # sess => sess'.pc = "greeting"
                /\ Len(store') = Len(store)
                /\ timers' \subseteq timers]_vars

\* a session that started at 0 and took a scheduling turn has been ended by
\* its deadline
C17_Witness ==
  /\ sess.pc = "ended"
  /\ now >= SessionTimeout
  /\ \E i \in 1..Len(store) : store[i].user_id = sess.user_id

\* C18: in every state a row with notified = 1 has had its reminder spoken by
\* a speak call of trigger_notification that returned, and notified changes
\* only in a step that ends a trigger_notification invocation for that id
\* whose speak returned and whose send was attempted, however the send ended.
C18_DeliveredSpoken ==
  /\ [](\A i \in 1..Len(store) : store[i].notified = 1 => i \in spoken)
  /\ [][\A i \in 1..Len(store) :
          store'[i].notified # store[i].notified
            => /\ InFlight(i)' < InFlight(i)
               /\ ev'.kind = "trigger" /\ ev'.id = i /\ ev'.speak = "ok"
               /\ ev'.alert \in AlertOutcomes]_vars

\* one row delivered and spoken, another whose speak raised: neither spoken
\* nor delivered
C18_Witness ==
  /\ ev.kind = "trigger" /\ ev.speak = "raised"
  /\ store[ev.id].notified = 0 /\ ev.id \notin spoken
  /\ \E j \in 1..Len(store) : store[j].notified = 1 /\ j \in spoken

\* C19: no trigger_notification invocation for an id starts before the row's
\* when_ts, from the id's date job or from a job the poll queued, and the poll
\* queues a job only for an id whose row has when_ts <= now and notified = 0.
C19_NoEarlyFire ==
  [][\A id \in 1..Len(store) :
       /\ InFlight(id)' > InFlight(id) => store[id].when_ts <= now
       /\ jobs'[id] > jobs[id]
            => (store[id].when_ts <= now /\ store[id].notified = 0)]_vars

\* a reminder being spoken at its when_ts while a later row waits, its date
\* job armed and nothing queued for it
C19_Witness ==
  \E i, j \in 1..Len(store) :
    /\ store[i].when_ts = now /\ InFlight(i) = 1
    /\ store[j].when_ts > now /\ InFlight(j) = 0 /\ jobs[j] = 0
    /\ [id |-> j, run_date |-> store[j].when_ts] \in timers

\* C20: an empty answer to the follow-up question is a missing datetime, not
\* the end of the session: the turn inserts no row and adds no job, speaks the
\* "couldn't understand the time" message and goes back to the while test,
\* which starts the next transcribe call when the 90 s are not over; and a
\* session ends only from the loop's own transcribe call or the while test.
C20_EmptyFollowUp ==
  /\ []((ev.kind = "follow" /\ ev.text = <<>>)
         => /\ ev.pc_after = "loop" /\ ev.dt = NoDate
            /\ ev.rows = 0 /\ ev.jobs_added = 0
            /\ ev.last_said = "no_time")
  /\ [][/\ (/\ sess.pc = "loop" /\ sess.follows = 1
             /\ ev.kind = "follow" /\ ev.text = <<>>
             /\ sess' # sess)
             => sess'.pc = IF LoopGuard(now, sess.start_time)
                           THEN "listening" ELSE "ended"
        /\ (sess'.pc = "ended" /\ sess.pc # "ended")
             => \/ sess.pc = "listening"
                \/ sess.pc = "loop" /\ ~LoopGuard(now, sess.start_time)]_vars

\* the follow-up answer was empty, the failure was spoken and the session,
\* its 90 s not over, has started its next transcribe call
C20_Witness ==
  /\ ev.kind = "follow" /\ ev.text = <<>> /\ ev.last_said = "no_time"
  /\ sess.pc = "listening" /\ sess.listen_at < sess.start_time + SessionTimeout
  /\ store = <<>>

=============================================================================
